---- MODULE Spec2Model ----
(***************************************************************************)
(* A model of zotero-fetch (src/main.go): a command-line tool that lists,  *)
(* opens and cites the items of a Zotero SQLite database.                  *)
(*                                                                         *)
(* Strings are sequences of one-character strings, so that splitting,      *)
(* prefix stripping, path cleaning, truncation, padding and LIKE matching  *)
(* are computed character by character, as the Go and SQLite code does.    *)
(* A nullable column is a record [Valid, String], as Go's sql.NullString.  *)
(***************************************************************************)
EXTENDS Integers, Sequences, FiniteSets, TLC

VARIABLES db, args, pc, dbOpens, dbCloses, exitCode, err, stdout, opened, items, item, ret

vars == <<db, args, pc, dbOpens, dbCloses, exitCode, err, stdout, opened, items, item, ret>>

\* sql.NullString (main.go:27-28): SQL NULL, and a present value
Null == [Valid |-> FALSE, String |-> <<>>]
Some(s) == [Valid |-> TRUE, String |-> s]

(***************************************************************************)
(* Bounds of the model.                                                    *)
(***************************************************************************)
\* number of rows of the items table
NumItems == 3
\* number of pieces an attachments string of the Item harness is built from
MaxPieces == 5
\* longest string handed to truncateString / printItem in the truncation harness
MaxStrLen == 28

(***************************************************************************)
(* Program constants.                                                      *)
(***************************************************************************)
\* main.go:275, Config.StoragePath: "/Users/vania/data/zotero/storage/"
StoragePath ==
    <<"/","U","s","e","r","s","/","v","a","n","i","a","/","d","a","t","a","/",
      "z","o","t","e","r","o","/","s","t","o","r","a","g","e","/">>
\* main.go:160 and 193, the prefix removed from the relative path
StoragePrefix == <<"s","t","o","r","a","g","e",":">>
\* main.go:179, the display width of the title
TitleWidth == 25
\* main.go:182, the display width of the tags
TagsWidth == 15
\* main.go:195 and 203, the width of the identifier column (%-8s)
IDWidth == 8
\* main.go:169, the length of the ellipsis "..."
EllipsisLen == 3

(***************************************************************************)
(* Go's strings and path/filepath functions, as the program uses them.     *)
(***************************************************************************)
RECURSIVE IndexOf(_, _, _)
\* the first position >= from at which character c stands in s, 0 if none
IndexOf(s, c, from) ==
    IF from > Len(s) THEN 0
    ELSE IF s[from] = c THEN from
    ELSE IndexOf(s, c, from + 1)

RECURSIVE Split(_, _)
\* strings.Split(s, sep) for a one-character separator: always at least one element
Split(s, sep) ==
    LET k == IndexOf(s, sep, 1) IN
    IF k = 0 THEN <<s>>
    ELSE <<SubSeq(s, 1, k - 1)>> \o Split(SubSeq(s, k + 1, Len(s)), sep)

RECURSIVE LastIndexOf(_, _, _)
LastIndexOf(s, c, from) ==
    IF from < 1 THEN 0
    ELSE IF s[from] = c THEN from
    ELSE LastIndexOf(s, c, from - 1)

\* SplitN2 gone wrong: the cut is made at the last separator
SplitAtLast(s, sep) ==
    LET k == LastIndexOf(s, sep, Len(s)) IN
    IF k = 0 THEN <<s>>
    ELSE <<SubSeq(s, 1, k - 1), SubSeq(s, k + 1, Len(s))>>

\* strings.SplitN(s, sep, 2): cut at the first separator only
SplitN2(s, sep) ==
    LET k == IndexOf(s, sep, 1) IN
    IF k = 0 THEN <<s>>
    ELSE <<SubSeq(s, 1, k - 1), SubSeq(s, k + 1, Len(s))>>

HasPrefix(s, p) == Len(s) >= Len(p) /\ SubSeq(s, 1, Len(p)) = p

\* strings.TrimPrefix(s, p): s without the leading p, once
TrimPrefix(s, p) == IF HasPrefix(s, p) THEN SubSeq(s, Len(p) + 1, Len(s)) ELSE s

RECURSIVE JoinWith(_, _)
\* strings.Join(elems, sep)
JoinWith(elems, sep) ==
    IF elems = <<>> THEN <<>>
    ELSE IF Len(elems) = 1 THEN elems[1]
    ELSE elems[1] \o sep \o JoinWith(Tail(elems), sep)

RECURSIVE DropLeadingEmpty(_)
\* filepath.Join skips the leading empty elements (its loop "if e != \"\"")
DropLeadingEmpty(elems) ==
    IF elems = <<>> THEN <<>>
    ELSE IF Head(elems) = <<>> THEN DropLeadingEmpty(Tail(elems))
    ELSE elems

RECURSIVE CleanStack(_, _, _)
\* filepath.Clean's pass over the path elements: "." and empty elements are
\* dropped, ".." removes the element before it, and is dropped at the root
CleanStack(comps, stack, rooted) ==
    IF comps = <<>> THEN stack
    ELSE LET c == Head(comps) IN
         IF c = <<>> \/ c = <<".">> THEN CleanStack(Tail(comps), stack, rooted)
         ELSE IF c = <<".", ".">> THEN
             IF stack # <<>> /\ stack[Len(stack)] # <<".", ".">>
             THEN CleanStack(Tail(comps), SubSeq(stack, 1, Len(stack) - 1), rooted)
             ELSE IF rooted THEN CleanStack(Tail(comps), stack, rooted)
             ELSE CleanStack(Tail(comps), Append(stack, c), rooted)
         ELSE CleanStack(Tail(comps), Append(stack, c), rooted)

\* filepath.Clean(p) on a Unix path
Clean(p) ==
    IF p = <<>> THEN <<".">>
    ELSE LET rooted == p[1] = "/"
             stack  == CleanStack(Split(p, "/"), <<>>, rooted)
         IN IF rooted THEN <<"/">> \o JoinWith(stack, <<"/">>)
            ELSE IF stack = <<>> THEN <<".">>
            ELSE JoinWith(stack, <<"/">>)

\* filepath.Join(elems...): from the first non-empty element on, the elements
\* joined by "/" and cleaned; "" when every element is empty
FilepathJoin(elems) ==
    LET ne == DropLeadingEmpty(elems) IN
    IF ne = <<>> THEN <<>> ELSE Clean(JoinWith(ne, <<"/">>))

\* utf8.RuneCountInString(s): one model character is one rune
RuneCount(s) == Len(s)

\* truncateString gone wrong: n runes of s are kept before the "..."
truncateStringNoRoom(s, n) ==
    IF Len(s) <= n THEN s
    ELSE SubSeq(s, 1, n) \o <<".", ".", ".">>

\* truncateString (main.go:164): s when it has at most n runes, else its first
\* n-3 runes and "..."
truncateString(s, n) ==
    IF RuneCount(s) <= n THEN s
    ELSE SubSeq(s, 1, n - EllipsisLen) \o <<".", ".", ".">>

\* fmt's %-Ns verb: s, then spaces up to a width of n runes; never cut
PadRight(s, n) ==
    IF Len(s) >= n THEN s ELSE s \o [i \in 1..(n - Len(s)) |-> " "]

(***************************************************************************)
(* SQLite's LIKE operator (built-in, no ESCAPE clause): "%" matches any    *)
(* run of characters, "_" any one character, every other character itself, *)
(* upper and lower case ASCII letters alike.                               *)
(***************************************************************************)
UpperLetters == <<"A", "B", "C", "X", "Y">>
LowerLetters == <<"a", "b", "c", "x", "y">>

\* the lower-case form of an ASCII letter, any other character unchanged
ToLower(c) ==
    IF \E i \in 1..Len(UpperLetters) : UpperLetters[i] = c
    THEN LowerLetters[CHOOSE i \in 1..Len(UpperLetters) : UpperLetters[i] = c]
    ELSE c

RECURSIVE LikeMatch(_, _)
\* patternCompare of SQLite's like(): does string s match pattern p
LikeMatch(p, s) ==
    IF p = <<>> THEN s = <<>>
    ELSE IF Head(p) = "%"
         THEN \E k \in 0..Len(s) : LikeMatch(Tail(p), SubSeq(s, k + 1, Len(s)))
    ELSE /\ s # <<>>
         /\ (Head(p) = "_" \/ ToLower(Head(p)) = ToLower(Head(s)))
         /\ LikeMatch(Tail(p), Tail(s))

\* value LIKE ?  with the argument "%"+filter+"%" (main.go:89-94); NULL LIKE ? is
\* not true
LikeFilter(value, filter) ==
    value.Valid /\ LikeMatch(<<"%">> \o filter \o <<"%">>, value.String)

(***************************************************************************)
(* The database: the tables of the Zotero schema that baseQuery reads.     *)
(*   display[i]  itemTypes.display of item i's type                        *)
(*   title[i]    the itemDataValues.value of i's title field, Null when i  *)
(*               has no itemData row for the field 'title'                 *)
(*   hasAtt[i]   i has an itemAttachments row (itemID is its key)          *)
(*   parent[i]   itemAttachments.parentItemID, 0 for SQL NULL              *)
(*   path[i]     itemAttachments.path                                      *)
(*   tags[i]     the tagIDs of i's itemTags rows                           *)
(* items.key is unique (spec.md, section 3): item i has the key "K<i>".    *)
(***************************************************************************)
ItemIDs == 1..NumItems
TagIDs == {1, 2}
Digits == <<"1", "2", "3", "4", "5", "6", "7", "8", "9">>

\* items.key of item i
Key(i) == <<"K", Digits[i]>>

\* tags.name of tag t
TagName(t) == IF t = 1 THEN <<"x">> ELSE <<"X", "y">>

LongTitle == [i \in 1..(TitleWidth + 2) |-> IF i = TitleWidth + 2 THEN "b" ELSE "a"]

\* the title values of item i in the databases checked
TitlesOf(i) ==
    IF i = 1 THEN {Null, Some(<<"A", "b">>), Some(LongTitle)}
    ELSE IF i = 2 THEN {Some(<<"c", "d">>)}
    ELSE {Some(<<"c", "B">>)}

\* the itemAttachments.path values in the databases checked
Paths ==
    { Null,
      Some(StoragePrefix \o <<"f">>),
      Some(<<"a", ",", "b", ":", "c">>) }

\* the itemAttachments rows of item i in the databases checked: none, a
\* standalone attachment (item 2), a child attachment of item 1
AttsOf(i) ==
    {[has |-> FALSE, parent |-> 0, path |-> Null]}
    \cup (IF i = 2 THEN {[has |-> TRUE, parent |-> 0, path |-> p] : p \in Paths} ELSE {})
    \cup (IF i = 2 THEN {[has |-> TRUE, parent |-> 1, path |-> p] : p \in Paths} ELSE {})
    \cup (IF i > 2 THEN {[has |-> TRUE, parent |-> 1, path |-> p]
                            : p \in {Null, Some(StoragePrefix \o <<"f">>)}}
          ELSE {})

DisplaysOf(i) == IF i = 1 THEN {0, 1} ELSE {1}

TagSetsOf(i) == IF i = 1 THEN SUBSET TagIDs ELSE {{}}

\* one row of the model's database per item
RowsOf(i) ==
    [display : DisplaysOf(i), title : TitlesOf(i), att : AttsOf(i), tags : TagSetsOf(i)]

Databases ==
    { [display |-> [i \in ItemIDs |-> r[i].display],
       title   |-> [i \in ItemIDs |-> r[i].title],
       hasAtt  |-> [i \in ItemIDs |-> r[i].att.has],
       parent  |-> [i \in ItemIDs |-> r[i].att.parent],
       path    |-> [i \in ItemIDs |-> r[i].att.path],
       tags    |-> [i \in ItemIDs |-> r[i].tags]]
      : r \in {f \in [ItemIDs -> UNION {RowsOf(i) : i \in ItemIDs}] :
                   \A i \in ItemIDs : f[i] \in RowsOf(i)} }

RECURSIVE SortedSeq(_)
\* the rows of a join come in rowid order: a set of ids as an ascending sequence
SortedSeq(S) ==
    IF S = {} THEN <<>>
    ELSE LET m == CHOOSE x \in S : \A y \in S : x <= y
         IN <<m>> \o SortedSeq(S \ {m})

RECURSIVE Distinct(_, _)
\* DISTINCT: the values of a sequence, each kept at its first occurrence
Distinct(vals, seen) ==
    IF vals = <<>> THEN <<>>
    ELSE IF Head(vals) \in seen THEN Distinct(Tail(vals), seen)
    ELSE <<Head(vals)>> \o Distinct(Tail(vals), seen \cup {Head(vals)})

\* GROUP_CONCAT(DISTINCT x): the distinct non-NULL values joined by ",", NULL
\* when there is none
GroupConcatDistinct(vals) ==
    IF vals = <<>> THEN Null ELSE Some(JoinWith(Distinct(vals, {}), <<",">>))

\* COALESCE(ia.path, '')
Coalesce(v) == IF v.Valid THEN v.String ELSE <<>>

\* baseQuery's third join: the itemAttachments rows with parentItemID = i or
\* itemID = i (main.go:54-55)
AttachmentIDs(d, i) ==
    {j \in ItemIDs : d.hasAtt[j] /\ (d.parent[j] = i \/ j = i)}

\* child.key || ':' || COALESCE(ia.path, '') (main.go:47)
AttachmentPair(d, j) == Key(j) \o <<":">> \o Coalesce(d.path[j])

\* BaseWhere gone wrong: the NOT EXISTS clause is missing
BaseWhereWithChildren(d, i) ==
    /\ d.display[i] = 1
    /\ d.title[i].Valid

\* baseQuery's WHERE clause (main.go:56-61)
BaseWhere(d, i) ==
    /\ d.display[i] = 1
    /\ d.title[i].Valid
    /\ ~(d.hasAtt[i] /\ d.parent[i] # 0)

\* TagRows gone wrong: the filter picks the items, but all tags are aggregated
TagRowsUnfiltered(d, i, tagFilter) ==
    IF \E t \in d.tags[i] : tagFilter = <<>> \/ LikeFilter(Some(TagName(t)), tagFilter)
    THEN d.tags[i] ELSE {}

\* the tags rows of item i that pass "t.name LIKE ?" (all of them without a
\* tag filter)
TagRows(d, i, tagFilter) ==
    {t \in d.tags[i] : tagFilter = <<>> \/ LikeFilter(Some(TagName(t)), tagFilter)}

\* does the group of item i have a row, under the conditions ListItems adds
\* (main.go:86-99)
Selected(d, i, titleFilter, tagFilter) ==
    /\ BaseWhere(d, i)
    /\ (titleFilter = <<>> \/ LikeFilter(d.title[i], titleFilter))
    /\ (tagFilter = <<>> \/ TagRows(d, i, tagFilter) # {})

\* baseQuery's SELECT list over the group of item i (main.go:43-47)
baseQuery(d, i, tagFilter) ==
    LET tagSeq == SortedSeq(TagRows(d, i, tagFilter))
        attSeq == SortedSeq(AttachmentIDs(d, i))
    IN [StableID    |-> Key(i),
        Title       |-> d.title[i].String,
        Tags        |-> GroupConcatDistinct([k \in 1..Len(tagSeq) |-> TagName(tagSeq[k])]),
        Attachments |-> GroupConcatDistinct(
                            [k \in 1..Len(attSeq) |-> AttachmentPair(d, attSeq[k])])]

NoItem == [StableID |-> <<>>, Title |-> <<>>, Tags |-> Null, Attachments |-> Null]

\* Repository.GetByStableID (main.go:64): the row of the item with this key, or
\* an error (the query fails, or sql.ErrNoRows). An error is the chain of its
\* wrapped messages, outermost first; <<>> is nil
GetByStableID(d, stableID, fault) ==
    LET hits == {i \in ItemIDs : Key(i) = stableID /\ Selected(d, i, <<>>, <<>>)} IN
    IF fault THEN [err |-> <<"fetching item", "query failed">>, item |-> NoItem]
    ELSE IF hits = {}
    THEN [err |-> <<"fetching item", "sql: no rows in result set">>, item |-> NoItem]
    ELSE [err |-> <<>>, item |-> baseQuery(d, CHOOSE i \in hits : TRUE, <<>>)]

\* the faults of a ListItems call: none, db.Query fails, rows.Scan fails,
\* rows.Err() reports one
Faults == {"", "executing query", "scanning row", "iterating rows"}

\* Repository.ListItems (main.go:81): the rows of the filtered query, or an error
\* and no items
ListItems(d, titleFilter, tagFilter, fault) ==
    LET ids == SortedSeq({i \in ItemIDs : Selected(d, i, titleFilter, tagFilter)}) IN
    IF fault = "executing query" THEN [err |-> <<fault>>, items |-> <<>>]
    ELSE IF fault = "scanning row" /\ ids # <<>> THEN [err |-> <<fault>>, items |-> <<>>]
    ELSE IF fault = "iterating rows" THEN [err |-> <<fault>>, items |-> <<>>]
    ELSE [err |-> <<>>, items |-> [k \in 1..Len(ids) |-> baseQuery(d, ids[k], tagFilter)]]

(***************************************************************************)
(* The CLI.                                                                *)
(***************************************************************************)
\* the path of one attachment pair (main.go:157-161 and 190-194)
PairPath(parts) ==
    FilepathJoin(<<StoragePath, parts[1], TrimPrefix(parts[2], StoragePrefix)>>)

\* getStoragePath gone wrong: a pair with an empty relative path counts as no
\* attachment
getStoragePathNeedsFile(it) ==
    IF ~it.Attachments.Valid \/ it.Attachments.String = <<>> THEN <<>>
    ELSE LET parts == SplitN2(Split(it.Attachments.String, ",")[1], ":")
         IN IF Len(parts) # 2 \/ parts[2] = <<>> THEN <<>>
            ELSE PairPath(parts)

\* CLI.getStoragePath (main.go:142)
getStoragePath(it) ==
    IF ~it.Attachments.Valid \/ it.Attachments.String = <<>> THEN <<>>
    ELSE LET attachments == Split(it.Attachments.String, ",")
             parts       == SplitN2(attachments[1], ":")
         IN IF Len(attachments) = 0 THEN <<>>
            ELSE IF Len(parts) # 2 THEN <<>>
            ELSE PairPath(parts)

\* fmt.Printf("%-8s\t%-25s\t%-15s\t%s\n", ...) without the newline
VerboseLine(id, title, tags, path) ==
    PadRight(id, IDWidth) \o <<"\t">> \o PadRight(title, TitleWidth) \o <<"\t">>
        \o PadRight(tags, TagsWidth) \o <<"\t">> \o path

\* AttachmentLines gone wrong: only the first pair is printed
AttachmentLinesFirstOnly(atts, id, title, tags) ==
    LET parts == SplitN2(Head(atts), ":") IN
    IF Len(parts) = 2 THEN <<VerboseLine(id, title, tags, PairPath(parts))>> ELSE <<>>

RECURSIVE AttachmentLines(_, _, _, _)
\* the loop over the attachment pairs (main.go:187-201): a line for each pair
\* that has a colon
AttachmentLines(atts, id, title, tags) ==
    IF atts = <<>> THEN <<>>
    ELSE LET parts == SplitN2(Head(atts), ":") IN
         (IF Len(parts) = 2
          THEN <<VerboseLine(id, title, tags, PairPath(parts))>>
          ELSE <<>>)
         \o AttachmentLines(Tail(atts), id, title, tags)

\* the verbose part of printItem (main.go:179-207)
printVerbose(it) ==
    LET title == truncateString(it.Title, TitleWidth)
        tags  == IF it.Tags.Valid THEN truncateString(it.Tags.String, TagsWidth)
                 ELSE <<>>
    IN IF it.Attachments.Valid /\ it.Attachments.String # <<>>
       THEN AttachmentLines(Split(it.Attachments.String, ","), it.StableID, title, tags)
       ELSE <<VerboseLine(it.StableID, title, tags, <<>>)>>

\* printItem gone wrong: without -v the title is printed after the identifier
printItemWithTitle(it, verbose) ==
    IF ~verbose THEN <<it.StableID \o <<" ">> \o it.Title>>
    ELSE printVerbose(it)

\* CLI.printItem (main.go:173): the lines it prints
printItem(it, verbose) ==
    IF ~verbose THEN <<it.StableID>>
    ELSE printVerbose(it)

RECURSIVE PrintAll(_, _)
\* the loop of CLI.List (main.go:217-219)
PrintAll(its, verbose) ==
    IF its = <<>> THEN <<>>
    ELSE printItem(Head(its), verbose) \o PrintAll(Tail(its), verbose)

\* CLI.List (main.go:211): the error and the lines printed
List(listed, verbose) ==
    IF listed.err # <<>> THEN [err |-> <<"listing items">> \o listed.err, out |-> <<>>]
    ELSE [err |-> <<>>, out |-> PrintAll(listed.items, verbose)]

\* Open gone wrong: the check for an empty path is missing
OpenUnchecked(fetched, runFails) ==
    IF fetched.err # <<>> THEN [err |-> <<"getting item">> \o fetched.err, opened |-> <<>>]
    ELSE LET path == getStoragePath(fetched.item) IN
         IF runFails \/ path = <<>> THEN [err |-> <<"opening file">>, opened |-> <<path>>]
         ELSE [err |-> <<>>, opened |-> <<path>>]

\* CLI.Open (main.go:224), from the result of GetByStableID on: the error and
\* the paths the OS open command was run on; runFails is cmd.Run's failure
Open(fetched, runFails) ==
    IF fetched.err # <<>> THEN [err |-> <<"getting item">> \o fetched.err, opened |-> <<>>]
    ELSE LET path == getStoragePath(fetched.item) IN
         IF path = <<>> THEN [err |-> <<"no attachment found">>, opened |-> <<>>]
         ELSE IF runFails THEN [err |-> <<"opening file">>, opened |-> <<path>>]
         ELSE [err |-> <<>>, opened |-> <<path>>]

\* main.go:276, Config.Version: "1.0"
Version == <<"1", ".", "0">>

\* fmt.Printf("[zotero: %s, stableid: %s, tags: %s, version: %s](%s)\n", ...)
\* (main.go:263) without the newline
ReferenceLine(title, id, tags, path) ==
    <<"[", "z", "o", "t", "e", "r", "o", ":", " ">> \o title
        \o <<",", " ", "s", "t", "a", "b", "l", "e", "i", "d", ":", " ">> \o id
        \o <<",", " ", "t", "a", "g", "s", ":", " ">> \o tags
        \o <<",", " ", "v", "e", "r", "s", "i", "o", "n", ":", " ">> \o Version
        \o <<"]", "(">> \o path \o <<")">>

\* CLI.Reference (main.go:243), from the result of GetByStableID on: the error
\* and the lines printed
Reference(fetched) ==
    IF fetched.err # <<>> THEN [err |-> <<"getting item">> \o fetched.err, out |-> <<>>]
    ELSE LET path == getStoragePath(fetched.item)
             tags == IF fetched.item.Tags.Valid THEN fetched.item.Tags.String ELSE <<>>
         IN IF path = <<>> THEN [err |-> <<"no attachment found">>, out |-> <<>>]
            ELSE [err |-> <<>>,
                  out |-> <<ReferenceLine(fetched.item.Title, fetched.item.StableID,
                                          <<"{">> \o tags \o <<"}">>, path)>>]

(***************************************************************************)
(* main: one run of the program.                                           *)
(*   pc        "start", "dispatch" (flags parsed, database opened),        *)
(*             "returning" (main returns, its deferred call is due),       *)
(*             "exited"                                                    *)
(*   args      the parsed command line                                     *)
(*   dbOpens   calls of sql.Open that returned a handle                    *)
(*   dbCloses  calls of db.Close                                           *)
(*   err       the error of the run, <<>> for none                         *)
(*   stdout    the lines printed                                           *)
(*   items     the rows ListItems returned to CLI.List (main.go:212)       *)
(*   item      the row GetByStableID returned (main.go:225, 244)           *)
(*   opened    the paths the OS open command was run on                    *)
(***************************************************************************)
OpenWord == <<"o", "p", "e", "n">>
ReferenceWord == <<"r", "e", "f", "e", "r", "e", "n", "c", "e">>

TitleFilters == {<<>>, <<"B">>, <<"_">>}
TagFilters == {<<>>, <<"x">>, <<"y">>, <<"_">>}
IDArgs == {Key(i) : i \in ItemIDs} \cup {<<"K", "0">>}

\* the command lines checked: a listing under any flags, open and reference
\* with one identifier, with none and with two, and an unknown command
Invocations ==
    [titleFlag : TitleFilters, tagFlag : TagFilters, verboseFlag : BOOLEAN, args : {<<>>}]
    \cup [titleFlag : {<<>>}, tagFlag : {<<>>}, verboseFlag : {FALSE},
          args : {<<w, k>> : w \in {OpenWord, ReferenceWord}, k \in IDArgs}
                 \cup {<<OpenWord>>, <<ReferenceWord>>, <<OpenWord, Key(1), Key(1)>>,
                       <<<<"x">>>>}]

NoArgs == [titleFlag |-> <<>>, tagFlag |-> <<>>, verboseFlag |-> FALSE, args |-> <<>>]

\* log.Fatalf / log.Fatal: the message goes to stderr and os.Exit(1) ends the
\* process at once; deferred calls do not run
Fatal(e) ==
    /\ err' = e
    /\ exitCode' = 1
    /\ pc' = "exited"
    /\ UNCHANGED dbCloses

\* main.go:273-291: flag.Parse and sql.Open succeed
MainStart ==
    /\ pc = "start"
    /\ \E a \in Invocations : args' = a
    /\ dbOpens' = dbOpens + 1
    /\ pc' = "dispatch"
    /\ UNCHANGED <<db, dbCloses, exitCode, err, stdout, opened, items, item, ret>>

\* main.go:284-287: sql.Open fails
MainStartFails ==
    /\ pc = "start"
    /\ \E a \in Invocations : args' = a
    /\ Fatal(<<"Error opening database">>)
    /\ UNCHANGED <<db, dbOpens, stdout, opened, items, item, ret>>

\* main.go:294-299: no arguments, the listing
MainList ==
    /\ pc = "dispatch"
    /\ Len(args.args) = 0
    /\ \E fault \in Faults :
         LET listed == ListItems(db, args.titleFlag, args.tagFlag, fault)
             r      == List(listed, args.verboseFlag)
         IN /\ items' = listed.items
            /\ stdout' = stdout \o r.out
            /\ IF r.err # <<>>
               THEN Fatal(<<"Error listing items">> \o r.err)
               ELSE pc' = "returning" /\ UNCHANGED <<err, exitCode, dbCloses>>
    /\ UNCHANGED <<db, args, dbOpens, opened, item, ret>>

\* main.go:303-309: the open command
MainOpen ==
    /\ pc = "dispatch"
    /\ Len(args.args) > 0
    /\ args.args[1] = OpenWord
    /\ IF Len(args.args) # 2
       THEN Fatal(<<"Usage">>) /\ UNCHANGED <<opened, item>>
       ELSE \E queryFails \in BOOLEAN, runFails \in BOOLEAN :
              LET fetched == GetByStableID(db, args.args[2], queryFails)
                  r       == Open(fetched, runFails)
              IN /\ item' = fetched.item
                 /\ opened' = opened \o r.opened
                 /\ IF r.err # <<>>
                    THEN Fatal(<<"Error opening item">> \o r.err)
                    ELSE pc' = "returning" /\ UNCHANGED <<err, exitCode, dbCloses>>
    /\ UNCHANGED <<db, args, dbOpens, stdout, items, ret>>

\* main.go:311-317: the reference command
MainReference ==
    /\ pc = "dispatch"
    /\ Len(args.args) > 0
    /\ args.args[1] = ReferenceWord
    /\ IF Len(args.args) # 2
       THEN Fatal(<<"Usage">>) /\ UNCHANGED <<stdout, item>>
       ELSE \E queryFails \in BOOLEAN :
              LET fetched == GetByStableID(db, args.args[2], queryFails)
                  r       == Reference(fetched)
              IN /\ item' = fetched.item
                 /\ stdout' = stdout \o r.out
                 /\ IF r.err # <<>>
                    THEN Fatal(<<"Error generating reference">> \o r.err)
                    ELSE pc' = "returning" /\ UNCHANGED <<err, exitCode, dbCloses>>
    /\ UNCHANGED <<db, args, dbOpens, opened, items, ret>>

\* main.go:319-320: any other command
MainUnknown ==
    /\ pc = "dispatch"
    /\ Len(args.args) > 0
    /\ args.args[1] \notin {OpenWord, ReferenceWord}
    /\ Fatal(<<"Unknown command">>)
    /\ UNCHANGED <<db, args, dbOpens, stdout, opened, items, item, ret>>

\* main returns (main.go:298, 322): the deferred db.Close() runs (main.go:288)
\* and the process exits with status 0
MainReturn ==
    /\ pc = "returning"
    /\ dbCloses' = dbCloses + 1
    /\ exitCode' = 0
    /\ pc' = "exited"
    /\ UNCHANGED <<db, args, dbOpens, err, stdout, opened, items, item, ret>>

Init ==
    /\ db \in Databases
    /\ args = NoArgs
    /\ pc = "start"
    /\ dbOpens = 0
    /\ dbCloses = 0
    /\ exitCode = -1
    /\ err = <<>>
    /\ stdout = <<>>
    /\ opened = <<>>
    /\ items = <<>>
    /\ item = NoItem
    /\ ret = <<>>

Next ==
    \/ MainStart
    \/ MainStartFails
    \/ MainList
    \/ MainOpen
    \/ MainReference
    \/ MainUnknown
    \/ MainReturn

Spec == Init /\ [][Next]_vars

(***************************************************************************)
(* The functions of one Item, called on their own: ItemSpec draws an Item  *)
(* as the repository could hand it over and applies getStoragePath,        *)
(* truncateString, printItem, Open and Reference to it.                    *)
(*   item   the Item                                                       *)
(*   args   the parameters of the call: the width n, the verbose flag      *)
(*   ret    the string returned                                            *)
(***************************************************************************)
Pieces == {<<"K">>, <<":">>, <<",">>, StoragePrefix, <<".", ".">>}

RECURSIVE Flatten(_)
Flatten(ss) == IF ss = <<>> THEN <<>> ELSE Head(ss) \o Flatten(Tail(ss))

\* the attachments strings checked: up to MaxPieces pieces in a row
AttachmentStrings ==
    {Flatten(ps) : ps \in UNION {[1..k -> Pieces] : k \in 0..MaxPieces}}

\* the titles and tags strings checked, of every length up to MaxStrLen: letters,
\* letters ending in "...", and dots only
LetterAt(i) == <<"a", "b", "c">>[(i % 3) + 1]
TruncStrings ==
    UNION { { [i \in 1..n |-> LetterAt(i)],
              [i \in 1..n |-> IF i > n - EllipsisLen THEN "." ELSE LetterAt(i)],
              [i \in 1..n |-> "."] } : n \in 0..MaxStrLen }

HarnessItems ==
    { [StableID |-> Key(1), Title |-> <<"A", "b">>, Tags |-> Null, Attachments |-> a]
        : a \in {Null} \cup {Some(x) : x \in AttachmentStrings} }
    \cup
    { [StableID |-> Key(1), Title |-> t, Tags |-> g, Attachments |-> Null]
        : t \in TruncStrings, g \in {Null} \cup {Some(x) : x \in {<<"x">>, LongTitle}} }
    \cup
    { [StableID |-> Key(1), Title |-> <<"A", "b">>, Tags |-> Some(t),
       Attachments |-> Some(Key(2) \o <<":">>)]
        : t \in TruncStrings }

NoCall == [n |-> 0, verbose |-> FALSE]

ItemInit ==
    /\ item \in HarnessItems
    /\ pc = "item"
    /\ args = NoCall
    /\ ret = <<>>
    /\ db = <<>>
    /\ dbOpens = 0
    /\ dbCloses = 0
    /\ exitCode = -1
    /\ err = <<>>
    /\ stdout = <<>>
    /\ opened = <<>>
    /\ items = <<>>

\* path := c.getStoragePath(item) (main.go:230, 249)
CallGetStoragePath ==
    /\ pc = "item"
    /\ ret' = getStoragePath(item)
    /\ pc' = "getStoragePath"
    /\ UNCHANGED <<db, items, args, dbOpens, dbCloses, exitCode, err, stdout, opened, item>>

\* truncateString(item.Title, 25) and truncateString(item.Tags.String, 15)
\* (main.go:179, 182)
CallTruncateString ==
    /\ pc = "item"
    /\ \/ /\ args' = [n |-> TitleWidth, verbose |-> FALSE]
          /\ ret' = truncateString(item.Title, TitleWidth)
       \/ /\ item.Tags.Valid
          /\ args' = [n |-> TagsWidth, verbose |-> FALSE]
          /\ ret' = truncateString(item.Tags.String, TagsWidth)
    /\ pc' = "truncateString"
    /\ UNCHANGED <<db, items, dbOpens, dbCloses, exitCode, err, stdout, opened, item>>

\* truncateString applied to its own result, with the same width
CallTruncateAgain ==
    /\ pc = "truncateString"
    /\ ret' = truncateString(ret, args.n)
    /\ pc' = "truncateString2"
    /\ UNCHANGED <<db, items, args, dbOpens, dbCloses, exitCode, err, stdout, opened, item>>

\* c.printItem(item, verbose) (main.go:218)
CallPrintItem ==
    /\ pc = "item"
    /\ \E v \in BOOLEAN :
         /\ args' = [n |-> 0, verbose |-> v]
         /\ stdout' = stdout \o printItem(item, v)
    /\ pc' = "printItem"
    /\ UNCHANGED <<db, items, dbOpens, dbCloses, exitCode, err, opened, item, ret>>

\* CLI.Open once GetByStableID has returned the item (main.go:230-239)
CallOpen ==
    /\ pc = "item"
    /\ \E runFails \in BOOLEAN :
         LET r == Open([err |-> <<>>, item |-> item], runFails)
         IN opened' = opened \o r.opened /\ err' = r.err
    /\ pc' = "Open"
    /\ UNCHANGED <<db, items, args, dbOpens, dbCloses, exitCode, stdout, item, ret>>

\* CLI.Reference once GetByStableID has returned the item (main.go:249-269)
CallReference ==
    /\ pc = "item"
    /\ LET r == Reference([err |-> <<>>, item |-> item])
       IN stdout' = stdout \o r.out /\ err' = r.err
    /\ pc' = "Reference"
    /\ UNCHANGED <<db, items, args, dbOpens, dbCloses, exitCode, opened, item, ret>>

ItemNext ==
    \/ CallGetStoragePath
    \/ CallTruncateString
    \/ CallTruncateAgain
    \/ CallPrintItem
    \/ CallOpen
    \/ CallReference

ItemSpec == ItemInit /\ [][ItemNext]_vars

(***************************************************************************)
(* What the checked properties speak of.                                   *)
(***************************************************************************)
\* the run is over or about to return, and the database was opened
Ran == dbOpens = 1 /\ pc \in {"returning", "exited"}

ListRan == Ran /\ args.args = <<>>
OpenRan == Ran /\ Len(args.args) = 2 /\ args.args[1] = OpenWord
ReferenceRan == Ran /\ Len(args.args) = 2 /\ args.args[1] = ReferenceWord

\* s contains f as a substring, upper and lower case letters alike
ContainsFold(s, f) ==
    \E k \in 0..(Len(s) - Len(f)) :
        \A i \in 1..Len(f) : ToLower(s[k + i]) = ToLower(f[i])

\* item i has an itemAttachments row with a non-null parentItemID
IsChildAttachment(d, i) == d.hasAtt[i] /\ d.parent[i] # 0

\* the message e is part of the error chain of the run
Failed(e) == \E k \in 1..Len(err) : err[k] = e

\* the items table row with this key, 0 if there is none
ItemOfKey(k) == IF \E i \in ItemIDs : Key(i) = k THEN CHOOSE i \in ItemIDs : Key(i) = k ELSE 0

\* C2: a listing that succeeded returned exactly the rows of the base query
\* (display type, title present, not a child attachment) whose title contains
\* the title filter and one of whose tag names contains the tag filter, as
\* case-insensitive substrings, an empty filter asking nothing; each once.
C2_ListExactlyMatching ==
    (ListRan /\ err = <<>>) =>
        /\ {items[k].StableID : k \in 1..Len(items)}
             = {Key(i) : i \in {j \in ItemIDs :
                    /\ BaseWhere(db, j)
                    /\ (args.titleFlag = <<>>
                          \/ ContainsFold(db.title[j].String, args.titleFlag))
                    /\ (args.tagFlag = <<>>
                          \/ \E t \in db.tags[j] : ContainsFold(TagName(t), args.tagFlag))}}
        /\ \A k, l \in 1..Len(items) : items[k].StableID = items[l].StableID => k = l

\* C3: a failed run ends with exit status 1 and an error, and a successful one
\* with status 0; open never runs the OS command on an empty path, nor after
\* a failed fetch, nor twice; reference and list print nothing when they fail.
C3_FailFast ==
    /\ (err # <<>>) => (pc = "exited" /\ exitCode = 1)
    /\ (pc = "exited" /\ exitCode = 0) => err = <<>>
    /\ OpenRan =>
          /\ Len(opened) <= 1
          /\ \A k \in 1..Len(opened) : opened[k] # <<>>
          /\ (Failed("getting item") \/ Failed("no attachment found")) => opened = <<>>
          /\ (opened = <<>>) => err # <<>>
    /\ (ReferenceRan /\ err # <<>>) => stdout = <<>>
    /\ (ListRan /\ err # <<>>) => stdout = <<>>
    /\ (Len(args.args) > 0 /\ ~OpenRan) => opened = <<>>

\* C3's case: open of an item without attachment ends fatally, nothing opened
C3_Witness ==
    /\ OpenRan
    /\ err = <<"Error opening item", "no attachment found">>
    /\ exitCode = 1
    /\ opened = <<>>

\* C4: when the process has exited, the database handle it opened has been
\* closed, once, and it was opened at most once.
C4_ClosedAtExit ==
    /\ dbOpens <= 1
    /\ (pc = "exited" /\ dbOpens = 1) => dbCloses = 1

\* C5: no row a listing returns and no row a fetch returns is a child
\* attachment; open and reference of a child attachment's key fail with
\* "no rows"; and the row of a parent names each of its children in its
\* attachments field, as "<child key>:".
C5_NoChildAttachment ==
    /\ (ListRan /\ err = <<>>) =>
          \A k \in 1..Len(items) :
             LET i == ItemOfKey(items[k].StableID) IN
             /\ i # 0
             /\ ~IsChildAttachment(db, i)
             /\ \A j \in ItemIDs :
                   (IsChildAttachment(db, j) /\ db.parent[j] = i) =>
                      /\ items[k].Attachments.Valid
                      /\ \E f \in 1..Len(Split(items[k].Attachments.String, ",")) :
                            HasPrefix(Split(items[k].Attachments.String, ",")[f],
                                      Key(j) \o <<":">>)
    /\ ((OpenRan \/ ReferenceRan) /\ item # NoItem) =>
          LET i == ItemOfKey(item.StableID) IN
          /\ item.StableID = args.args[2]
          /\ ~IsChildAttachment(db, i)
          /\ \A j \in ItemIDs :
                (IsChildAttachment(db, j) /\ db.parent[j] = i) =>
                   /\ item.Attachments.Valid
                   /\ \E f \in 1..Len(Split(item.Attachments.String, ",")) :
                         HasPrefix(Split(item.Attachments.String, ",")[f], Key(j) \o <<":">>)
    /\ ((OpenRan \/ ReferenceRan) /\ ItemOfKey(args.args[2]) # 0
           /\ IsChildAttachment(db, ItemOfKey(args.args[2]))) =>
          /\ item = NoItem
          /\ Failed("fetching item")
          /\ opened = <<>> /\ stdout = <<>>

\* C5's case: item 2 is a child of item 1, open K2 fails with "no rows", and
\* (in the same database) the row of item 1 would name K2
C5_Witness ==
    /\ OpenRan
    /\ args.args[2] = Key(2)
    /\ IsChildAttachment(db, 2)
    /\ BaseWhere(db, 1)
    /\ err = <<"Error opening item", "getting item", "fetching item",
               "sql: no rows in result set">>

\* C6: a listing without -v that succeeded printed one line per row returned,
\* in their order, each line the row's identifier and nothing else.
C6_PlainListing ==
    (ListRan /\ err = <<>> /\ ~args.verboseFlag) =>
        /\ Len(stdout) = Len(items)
        /\ \A k \in 1..Len(items) : stdout[k] = items[k].StableID

\* C6's case: two rows listed, the first with an attachment whose path holds
\* a comma (two lines in a verbose listing), two lines
C6_Witness ==
    /\ ListRan /\ err = <<>> /\ ~args.verboseFlag
    /\ Len(items) = 2
    /\ AttachmentIDs(db, 1) = {2}
    /\ Len(printItem(items[1], TRUE)) = 2
    /\ stdout = <<Key(1), Key(3)>>

RECURSIVE TagNamesMatching(_, _)
\* the names of the tags ts (ascending tagIDs) that the filter matches as the
\* query's LIKE does, joined by ","
TagNamesMatching(ts, filter) ==
    IF ts = <<>> THEN <<>>
    ELSE LET rest == TagNamesMatching(Tail(ts), filter) IN
         IF filter = <<>> \/ LikeMatch(<<"%">> \o filter \o <<"%">>, TagName(Head(ts)))
         THEN IF rest = <<>> THEN TagName(Head(ts)) ELSE TagName(Head(ts)) \o <<",">> \o rest
         ELSE rest

\* C9: each row a listing returns has as its tags field the names of the
\* item's tags that match the tag filter (all its tags without a filter, NULL
\* if it has none), and the same attachments field as the row GetByStableID
\* returns for it, which carries all the item's tags.
C9_FilteredTags ==
    (ListRan /\ err = <<>>) =>
        \A k \in 1..Len(items) :
           LET i    == ItemOfKey(items[k].StableID)
               full == GetByStableID(db, items[k].StableID, FALSE)
               all  == ListItems(db, <<>>, <<>>, "").items
           IN /\ items[k].Tags.String = TagNamesMatching(SortedSeq(db.tags[i]), args.tagFlag)
              /\ items[k].Tags.Valid = (items[k].Tags.String # <<>>)
              /\ full.err = <<>>
              /\ full.item.Tags.String = TagNamesMatching(SortedSeq(db.tags[i]), <<>>)
              /\ items[k].Attachments = full.item.Attachments
              /\ \E l \in 1..Len(all) :
                    /\ all[l].StableID = items[k].StableID
                    /\ all[l].Tags = full.item.Tags
                    /\ all[l].Attachments = items[k].Attachments
              /\ (args.tagFlag = <<>>) => items[k].Tags = full.item.Tags
              /\ (args.tagFlag # <<>>) => items[k].Tags.Valid

\* C9's case: item 1 has the tags "x" and "Xy" and an attachment; the listing
\* with the tag filter "y" returns it with the tags "Xy" only
C9_Witness ==
    /\ ListRan /\ err = <<>>
    /\ args.tagFlag = <<"y">>
    /\ db.tags[1] = {1, 2}
    /\ AttachmentIDs(db, 1) # {}
    /\ Len(items) = 1
    /\ items[1].Tags = Some(<<"X", "y">>)
    /\ GetByStableID(db, Key(1), FALSE).item.Tags = Some(<<"x", ",", "X", "y">>)
    /\ items[1].Attachments = GetByStableID(db, Key(1), FALSE).item.Attachments

\* the position of the first ch in s, 0 if s has none
FirstPos(s, ch) ==
    IF \E i \in 1..Len(s) : s[i] = ch
    THEN CHOOSE i \in 1..Len(s) : s[i] = ch /\ \A j \in 1..(i - 1) : s[j] # ch
    ELSE 0

\* the part of s before its first ch (all of s without one), and the part after
Before(s, ch) == IF FirstPos(s, ch) = 0 THEN s ELSE SubSeq(s, 1, FirstPos(s, ch) - 1)
After(s, ch) == SubSeq(s, FirstPos(s, ch) + 1, Len(s))

\* the path a fragment "key:relative path" stands for: storage root, key, and
\* the relative path without a leading "storage:"
FragmentPath(f) ==
    LET rel == After(f, ":") IN
    FilepathJoin(<<StoragePath, Before(f, ":"),
                   IF HasPrefix(rel, StoragePrefix)
                   THEN SubSeq(rel, Len(StoragePrefix) + 1, Len(rel)) ELSE rel>>)

RECURSIVE ColonFragments(_)
\* the comma-separated fragments of s that contain a colon, in order
ColonFragments(s) ==
    LET f    == Before(s, ",")
        rest == IF FirstPos(s, ",") = 0 THEN <<>> ELSE ColonFragments(After(s, ","))
    IN IF FirstPos(f, ":") # 0 THEN <<f>> \o rest ELSE rest

\* the three columns every verbose line of an item starts with
Columns(it) ==
    PadRight(it.StableID, IDWidth) \o <<"\t">>
        \o PadRight(truncateString(it.Title, TitleWidth), TitleWidth) \o <<"\t">>
        \o PadRight(IF it.Tags.Valid THEN truncateString(it.Tags.String, TagsWidth) ELSE <<>>,
                    TagsWidth) \o <<"\t">>

\* the verbose lines of an item: one with an empty path when it has no
\* attachments field, else one per fragment with a colon, with its path
ExpectedLines(it) ==
    IF ~it.Attachments.Valid \/ it.Attachments.String = <<>> THEN <<Columns(it)>>
    ELSE LET fs == ColonFragments(it.Attachments.String)
         IN [j \in 1..Len(fs) |-> Columns(it) \o FragmentPath(fs[j])]

RECURSIVE ExpectedOutput(_)
ExpectedOutput(its) ==
    IF its = <<>> THEN <<>> ELSE ExpectedLines(Head(its)) \o ExpectedOutput(Tail(its))

\* C10: a verbose listing that succeeded printed, for each row returned and in
\* their order, one line with an empty path when the row has no attachments,
\* else one line per comma-separated fragment with a colon, showing the
\* fragment's path after the identifier, title and tags columns; every row
\* has at least one line, and the path of its first line is its
\* getStoragePath.
C10_VerboseListing ==
    (ListRan /\ err = <<>> /\ args.verboseFlag) =>
        /\ stdout = ExpectedOutput(items)
        /\ \A k \in 1..Len(items) :
              /\ Len(ExpectedLines(items[k])) >= 1
              /\ ExpectedLines(items[k])[1] = Columns(items[k]) \o getStoragePath(items[k])

\* C10's case: item 1 has two child attachments, one with a comma and a colon
\* in its path: three fragments with a colon, three lines
C10_Witness ==
    /\ ListRan /\ err = <<>> /\ args.verboseFlag
    /\ Len(items) = 1
    /\ items[1].Attachments.Valid
    /\ Len(Split(items[1].Attachments.String, ",")) = 3
    /\ Len(stdout) = 3
    /\ stdout[1] # stdout[2]

\* the Item has no first attachment pair: no attachments field, an empty one,
\* or no colon before its first comma
NoFirstPair(it) ==
    \/ ~it.Attachments.Valid
    \/ it.Attachments.String = <<>>
    \/ FirstPos(Before(it.Attachments.String, ","), ":") = 0

\* C1: for an Item whose attachments field starts with a pair (a colon before
\* the first comma), getStoragePath returns the join of the storage root,
\* the text before the pair's first colon, and the text after it without a
\* leading "storage:"; a further pair appended to the field changes nothing.
C1_FirstPairPath ==
    (pc = "getStoragePath" /\ ~NoFirstPair(item)) =>
        /\ ret = FragmentPath(Before(item.Attachments.String, ","))
        /\ \A p \in Pieces :
              getStoragePath([item EXCEPT !.Attachments.String = @ \o <<",">> \o p \o <<":">>])
                 = ret

\* C1's case: "K:storage:K,": a second colon and a second fragment
C1_Witness ==
    /\ pc = "getStoragePath"
    /\ item.Attachments = Some(<<"K", ":">> \o StoragePrefix \o <<"K", ",">>)
    /\ ret = SubSeq(StoragePath, 1, Len(StoragePath) - 1) \o <<"/", "K", "/", "K">>

\* the string CallTruncateString handed to truncateString
TruncInput == IF args.n = TitleWidth THEN item.Title ELSE item.Tags.String

\* r is s cut to the width n: s itself if it has at most n runes, else n
\* runes, the first n-3 of s and three dots
IsTruncationOf(r, s, n) ==
    /\ Len(r) <= n
    /\ (Len(s) <= n) => r = s
    /\ (Len(s) > n) =>
          /\ Len(r) = n
          /\ \A i \in 1..n : r[i] = IF i <= n - 3 THEN s[i] ELSE "."

\* C7: truncateString(s, 25) and truncateString(s, 15) return s cut to the
\* width; cutting the result again returns the same; and in a verbose line
\* the title column is 25 runes wide and the tags column 15, no more.
C7_Truncation ==
    /\ (pc = "truncateString") => IsTruncationOf(ret, TruncInput, args.n)
    /\ (pc = "truncateString2") => IsTruncationOf(ret, TruncInput, args.n)
    /\ (pc = "printItem" /\ args.verbose) =>
          \A k \in 1..Len(stdout) :
             LET cols == Split(stdout[k], "\t") IN
             /\ Len(cols) = 4
             /\ Len(cols[2]) = TitleWidth
             /\ Len(cols[3]) = TagsWidth
             /\ IsTruncationOf(SubSeq(cols[2], 1, Len(truncateString(item.Title, TitleWidth))),
                               item.Title, TitleWidth)

\* C7's case: a title of more than 25 runes, cut once and again
C7_Witness ==
    /\ pc = "truncateString2"
    /\ args.n = TitleWidth
    /\ Len(item.Title) > TitleWidth
    /\ Len(ret) = TitleWidth
    /\ SubSeq(ret, TitleWidth - 2, TitleWidth) = <<".", ".", ".">>

\* C8: getStoragePath returns "" exactly for an Item without a first pair;
\* Open and Reference fail with "no attachment found" exactly then, and else
\* Open runs the OS command on the path and Reference prints its line; for
\* the attachments field "KEY:" Open runs the command on storage root/KEY.
C8_EmptyPathCases ==
    /\ (pc = "getStoragePath") => ((ret = <<>>) <=> NoFirstPair(item))
    /\ (pc = "Open") =>
          /\ (err = <<"no attachment found">>) <=> NoFirstPair(item)
          /\ (opened = <<>>) <=> NoFirstPair(item)
          /\ ~NoFirstPair(item) => opened = <<getStoragePath(item)>>
          /\ (\E key \in {Key(i) : i \in ItemIDs} \cup {<<"K">>} :
                 item.Attachments = Some(key \o <<":">>)) =>
                opened = <<SubSeq(StoragePath, 1, Len(StoragePath) - 1) \o <<"/">>
                             \o Before(item.Attachments.String, ":")>>
    /\ (pc = "Reference") =>
          /\ (err = <<"no attachment found">>) <=> NoFirstPair(item)
          /\ (stdout = <<>>) <=> NoFirstPair(item)

\* C8's case: the attachments field "K:", which Open opens as a directory
C8_Witness ==
    /\ pc = "Open"
    /\ item.Attachments = Some(<<"K", ":">>)
    /\ err = <<>>
    /\ opened = <<SubSeq(StoragePath, 1, Len(StoragePath) - 1) \o <<"/", "K">>>>

====
